---- MODULE Spec2Model ----
(***************************************************************************)
(* Verification model of the anki-flashcarder vocabulary pipeline:         *)
(*   - CambridgeScraper (src/app/cambridge_scraper.py): one process_word   *)
(*     task per word, page fetch under an asyncio.Semaphore, audio fetch   *)
(*     after the permit is released, results gathered per input position;  *)
(*   - LLMProcessor (src/app/llm_processor.py): successful outcomes split  *)
(*     into batches, one process_words task per batch under a second       *)
(*     semaphore, responses zipped back to (word, audio_path);             *)
(*   - VocabularyPipeline.process_from_csv_async (src/app/pipeline.py),    *)
(*     which runs the two stages one after the other.                      *)
(* Each action is one run of a coroutine between two suspension points.    *)
(* SpecEnrich is LLMProcessor.process_words_batch called on any outcome    *)
(* list; SpecPure is one call of an extraction function of the scraper or  *)
(* of app.utils.create_cloze on generated markup and text.                 *)
(***************************************************************************)
EXTENDS Integers, Sequences, FiniteSets, TLC

(***************************************************************************)
(* Bounds of the model.  The three settings are configuration values       *)
(* (Settings fields, overridable from the environment); they are set below *)
(* the number of words so that the caps and the batch split bind.          *)
(***************************************************************************)
MaxWords == 3
max_concurrent_scrapes == 2
max_concurrent_llm == 1
llm_batch_size == 2
\* Longest outcome list handed to a direct call of LLMProcessor.process_words_batch.
MaxOutcomes == 4
\* Longest generated word handed to create_cloze.
MaxWordLen == 3
\* Longest generated src attribute of an audio source tag.
MaxUrlLen == 3
\* Longest generated text of a definition tag.
MaxMeaningLen == 4
\* Most example nodes generated under one sense (more than max_example).
MaxExampleNodes == 4
\* Most entries generated on one page.
MaxEntries == 2
\* Most definitions generated for one word handed to generate_entries.
MaxDefinitions == 2
\* Most definitions the service writes into one response entry.
MaxServiceDefinitions == 6

\* The words a run may be given, already stripped and lower-cased by
\* read_words_from_csv; word i of a run is Vocab[i], cyclically.
Vocab == <<"run", "ice cream", "effort">>

WordAt(i) == Vocab[((i - 1) % Len(Vocab)) + 1]

WordList(n) == [i \in 1..n |-> WordAt(i)]

Range(s) == {s[k] : k \in 1..Len(s)}

(***************************************************************************)
(* Values.                                                                 *)
(***************************************************************************)
None == [kind |-> "None"]

Pending == [kind |-> "pending"]

Cancelled == [kind |-> "cancelled"]

Raised(e) == [kind |-> "exc", exc |-> e]

NoURL == "None"

AudioURL == "https://dictionary.cambridge.org/media/a.mp3"

CambridgeData(word, definitions, audio_url) ==
    [kind |-> "CambridgeData", word |-> word, definitions |-> definitions,
     audio_url |-> audio_url]

\* A (word, CambridgeData-or-None, audio_path) tuple.
Outcome(word, cd, audio_path) ==
    [kind |-> "tuple", word |-> word, cd |-> cd, audio_path |-> audio_path]

\* What the page GET of scrape_word can come back with: a transport error, a
\* non-2xx status (raise_for_status), an exception of another class, or a page
\* whose extraction gives the definitions and the audio locator shown.
PageResponses ==
    {[status |-> s, definitions |-> <<>>, audio_url |-> NoURL] :
        s \in {"RequestError", "HTTPStatusError", "Exception"}}
    \cup {[status |-> "ok", definitions |-> d, audio_url |-> u] :
        d \in {<<>>, <<"def">>}, u \in {NoURL, AudioURL}}

\* What the audio GET of download_audio can come back with.
AudioResponses == {"ok", "RequestError", "HTTPStatusError"}

VARIABLES
    words,          \* the input word list
    show_progress,  \* the show_progress argument of both process_words_batch calls
    pc,             \* scraper task i: "start", "sleep", "get", "audio", "done", "cancelled"
    sem,            \* CambridgeScraper.semaphore: its value, the free permits
    holders,        \* scraper tasks inside `async with self.semaphore`
    scraped,        \* scraper task i: what scrape_word returned
    task_res,       \* scraper task i: result of process_word(words[i])
    fetch_log,      \* scraper task i: what its page GET and audio GET came back with
    completed,      \* scraper tasks in the order they finished
    scrape_call,    \* CambridgeScraper.process_words_batch: "running", "returned", "raised"
    scrape_results, \* its return value
    batches,        \* LLMProcessor.process_words_batch: its batches
    llm_pc,         \* batch task b: "start", "call", "done", "cancelled"
    llm_sem,        \* LLMProcessor.semaphore: its value
    llm_holders,    \* batch tasks inside `async with self.semaphore`
    llm_res,        \* batch task b: result of process_words(batch b)
    llm_calls,      \* batch task b: number of chain.ainvoke calls issued
    llm_completed,  \* batch tasks in the order they finished
    llm_call,       \* LLMProcessor.process_words_batch: "idle", "running", "returned", "raised"
    processed_words,\* its return value
    pipeline,       \* process_from_csv_async: pc "running", "returned" or "raised", ret,
                    \* and written: generate_and_export was called
    call,           \* a function called on its own: its name and argument
    ret             \* what that call returned, once it has

scraper_vars == <<pc, sem, holders, scraped, task_res, fetch_log, completed,
                  scrape_call, scrape_results>>

llm_vars == <<batches, llm_pc, llm_sem, llm_holders, llm_res, llm_calls,
              llm_completed, llm_call, processed_words>>

vars == <<words, show_progress, pc, sem, holders, scraped, task_res, fetch_log,
          completed, scrape_call, scrape_results, batches, llm_pc, llm_sem,
          llm_holders, llm_res, llm_calls, llm_completed, llm_call,
          processed_words, pipeline, call, ret>>

\* No function is being called on its own.
NoCall == [fn |-> "none"]

NotReturned == [done |-> FALSE]

Returned(val) == [done |-> TRUE, val |-> val]

N == Len(words)

Tasks == 1..N

(***************************************************************************)
(* asyncio.Semaphore.                                                      *)
(***************************************************************************)
\* asyncio.Semaphore(self.settings.max_concurrent_scrapes) of CambridgeScraper.
ScraperSemaphore == max_concurrent_scrapes

\* The batch semaphore built from the scraper's setting.
LLMSemaphoreWrongSetting == max_concurrent_scrapes

\* asyncio.Semaphore(self.settings.max_concurrent_llm) of LLMProcessor.
LLMSemaphore == max_concurrent_llm

\* acquire() goes through only while the value is positive, and takes one.
CanAcquireOffByOne(value) == value >= 0

CanAcquire(value) == value > 0

SemAcquireNoCount(value) == value

SemAcquire(value) == value - 1

\* release() gives one permit back.
SemRelease(value) == value + 1

(***************************************************************************)
(* CambridgeScraper.scrape_word, from the page response on.                *)
(***************************************************************************)
\* scrape_word with the `except httpx.HTTPStatusError` clause left out.
ScrapeWordStatusUncaught(word, resp) ==
    CASE resp.status = "RequestError" -> [ret |-> None, parsed |-> FALSE]
      [] resp.status = "ok" ->
            IF resp.definitions = <<>>
            THEN [ret |-> None, parsed |-> TRUE]
            ELSE [ret |-> CambridgeData(word, resp.definitions, resp.audio_url),
                  parsed |-> TRUE]
      [] OTHER -> [ret |-> Raised(resp.status), parsed |-> FALSE]

\* scrape_word without its `if not definitions: return None`.
ScrapeWordKeepsEmpty(word, resp) ==
    CASE resp.status = "RequestError" -> [ret |-> None, parsed |-> FALSE]
      [] resp.status = "HTTPStatusError" -> [ret |-> None, parsed |-> FALSE]
      [] resp.status = "ok" ->
            [ret |-> CambridgeData(word, resp.definitions, resp.audio_url),
             parsed |-> TRUE]
      [] OTHER -> [ret |-> Raised(resp.status), parsed |-> FALSE]

ScrapeWord(word, resp) ==
    CASE resp.status = "RequestError" -> [ret |-> None, parsed |-> FALSE]
      [] resp.status = "HTTPStatusError" -> [ret |-> None, parsed |-> FALSE]
      [] resp.status = "ok" ->
            IF resp.definitions = <<>>
            THEN [ret |-> None, parsed |-> TRUE]
            ELSE [ret |-> CambridgeData(word, resp.definitions, resp.audio_url),
                  parsed |-> TRUE]
      [] OTHER -> [ret |-> Raised(resp.status), parsed |-> FALSE]

\* A release written after the body instead of `async with`: skipped when the
\* body is left by an early return or an exception.
ScrapeExitReleasesOnSuccess(resp) == resp.status = "ok" /\ resp.definitions # <<>>

\* `async with self.semaphore` releases the permit however its body is left.
ScrapeExitReleases(resp) == TRUE

\* CambridgeScraper.download_audio, from the audio response on: the local
\* path, "" or an exception that leaves the coroutine.
DownloadAudio(word, resp) ==
    CASE resp = "ok" -> [kind |-> "str", str |-> "data/audio/" \o word \o ".mp3"]
      [] resp = "RequestError" -> [kind |-> "str", str |-> ""]
      [] OTHER -> Raised(resp)

\* process_word: an audio fetch follows only a record with an audio locator.
NeedsAudio(cd) == cd # None /\ cd.audio_url # NoURL

Init ==
    /\ \E n \in 0..MaxWords : words = WordList(n)
    /\ show_progress \in BOOLEAN
    /\ pc = [i \in 1..Len(words) |-> "start"]
    /\ sem = ScraperSemaphore
    /\ holders = {}
    /\ scraped = [i \in 1..Len(words) |-> Pending]
    /\ task_res = [i \in 1..Len(words) |-> Pending]
    /\ fetch_log = [i \in 1..Len(words) |->
                        [page |-> "none", parsed |-> FALSE, audio |-> "none"]]
    /\ completed = <<>>
    /\ scrape_call = "running"
    /\ scrape_results = <<>>
    /\ batches = <<>>
    /\ llm_pc = <<>>
    /\ llm_sem = LLMSemaphore
    /\ llm_holders = {}
    /\ llm_res = <<>>
    /\ llm_calls = <<>>
    /\ llm_completed = <<>>
    /\ llm_call = "idle"
    /\ processed_words = <<>>
    /\ pipeline = [pc |-> "running", ret |-> "", written |-> FALSE]
    /\ call = NoCall
    /\ ret = NotReturned

\* scrape_word up to the sleep: the permit is taken.
ScrapeAcquire(i) ==
    /\ pc[i] = "start"
    /\ CanAcquire(sem)
    /\ sem' = SemAcquire(sem)
    /\ holders' = holders \cup {i}
    /\ pc' = [pc EXCEPT ![i] = "sleep"]
    /\ UNCHANGED <<call, ret, words, show_progress, scraped, task_res, fetch_log,
                   completed,
                   scrape_call, scrape_results, pipeline>>
    /\ UNCHANGED llm_vars

\* asyncio.sleep(scraper_rate_limit) is over: the page GET is issued.
ScrapeSleepDone(i) ==
    /\ pc[i] = "sleep"
    /\ pc' = [pc EXCEPT ![i] = "get"]
    /\ UNCHANGED <<call, ret, words, show_progress, sem, holders, scraped, task_res, fetch_log,
                   completed, scrape_call, scrape_results, pipeline>>
    /\ UNCHANGED llm_vars

\* The page GET comes back: the rest of scrape_word runs, the permit is
\* released, and process_word goes on to the audio GET or finishes.
PageResponse(i, resp) ==
    /\ pc[i] = "get"
    /\ LET r == ScrapeWord(words[i], resp)
           audio == r.ret.kind = "CambridgeData" /\ NeedsAudio(r.ret)
           result == IF r.ret.kind = "exc" THEN r.ret
                     ELSE IF r.ret = None THEN None
                     ELSE Outcome(words[i], r.ret, "")
       IN /\ scraped' = [scraped EXCEPT ![i] = r.ret]
          /\ fetch_log' = [fetch_log EXCEPT ![i].page = resp.status,
                                            ![i].parsed = r.parsed,
                                            ![i].audio = IF audio THEN "in_flight"
                                                         ELSE "none"]
          /\ IF ScrapeExitReleases(resp)
             THEN sem' = SemRelease(sem) /\ holders' = holders \ {i}
             ELSE UNCHANGED <<sem, holders>>
          /\ IF audio
             THEN /\ pc' = [pc EXCEPT ![i] = "audio"]
                  /\ UNCHANGED <<task_res, completed>>
             ELSE /\ pc' = [pc EXCEPT ![i] = "done"]
                  /\ task_res' = [task_res EXCEPT ![i] = result]
                  /\ completed' = Append(completed, i)
    /\ UNCHANGED <<call, ret, words, show_progress, scrape_call, scrape_results, pipeline>>
    /\ UNCHANGED llm_vars

\* The audio GET comes back: download_audio and process_word finish.
AudioResponse(i, resp) ==
    /\ pc[i] = "audio"
    /\ LET a == DownloadAudio(words[i], resp)
       IN task_res' = [task_res EXCEPT ![i] =
                          IF a.kind = "str" THEN Outcome(words[i], scraped[i], a.str)
                          ELSE a]
    /\ fetch_log' = [fetch_log EXCEPT ![i].audio = resp]
    /\ pc' = [pc EXCEPT ![i] = "done"]
    /\ completed' = Append(completed, i)
    /\ UNCHANGED <<call, ret, words, show_progress, sem, holders, scraped, scrape_call,
                   scrape_results, pipeline>>
    /\ UNCHANGED llm_vars


\* asyncio.run ends with the exception of process_from_csv_async and cancels
\* every task still pending: a task inside `async with` gives its permit back.
ScrapeCancel(i) ==
    /\ scrape_call = "raised"
    /\ pc[i] \in {"start", "sleep", "get", "audio"}
    /\ pc' = [pc EXCEPT ![i] = "cancelled"]
    /\ task_res' = [task_res EXCEPT ![i] = Cancelled]
    /\ IF i \in holders
       THEN sem' = SemRelease(sem) /\ holders' = holders \ {i}
       ELSE UNCHANGED <<sem, holders>>
    /\ UNCHANGED <<call, ret, words, show_progress, scraped, fetch_log, completed, scrape_call,
                   scrape_results, pipeline>>
    /\ UNCHANGED llm_vars

(***************************************************************************)
(* Gathering.                                                              *)
(***************************************************************************)
\* asyncio.gather(*tasks, return_exceptions=True): the results by position,
\* an exception standing where its task raised.
AsyncioGather(res) == [i \in 1..Len(res) |-> res[i]]

\* sorted(res) on the (i, result) pairs of tqdm's gather: by position i.
SortedPairs(pairs) ==
    [k \in 1..Len(pairs) |->
        CHOOSE p \in Range(pairs) :
            Cardinality({q \in Range(pairs) : q[1] < p[1]}) = k - 1]

\* The gather without its sort: the results in completion order.
TqdmGatherUnsorted(order, res) == [k \in 1..Len(order) |-> res[order[k]]]

\* tqdm.asyncio.tqdm.gather(*tasks): the (i, result) pairs are collected in
\* completion order, sorted, and the results taken out.
TqdmGather(order, res) ==
    LET collected == [k \in 1..Len(order) |-> <<order[k], res[order[k]]>>]
        sorted == SortedPairs(collected)
    IN [k \in 1..Len(sorted) |-> sorted[k][2]]

\* tqdm's gather awaits the tasks as they complete and has no
\* return_exceptions: the first exception it meets leaves the gather.
TqdmRaises(order, res) == \E k \in 1..Len(order) : res[order[k]].kind = "exc"

\* The "Process results" loop of CambridgeScraper.process_words_batch.
ProcessResults(ws, results) ==
    [i \in 1..Len(results) |->
        IF results[i].kind = "exc" THEN Outcome(ws[i], None, "")
        ELSE IF results[i] = None THEN Outcome(ws[i], None, "")
        ELSE results[i]]

\* A filter that lets every outcome through.
IsValidAlways(o) == TRUE

\* [(w, cd, ap) for w, cd, ap in ... if cd is not None]
IsValid(o) == o.cd # None

Successful(outcomes) == SelectSeq(outcomes, IsValid)

(***************************************************************************)
(* LLMProcessor.process_words_batch.                                       *)
(***************************************************************************)
Min(a, b) == IF a < b THEN a ELSE b

\* Partition that forgets the last, shorter batch.
PartitionDropsTail(valid_data, batch_size) ==
    [b \in 1..(Len(valid_data) \div batch_size) |->
        SubSeq(valid_data, (b - 1) * batch_size + 1, b * batch_size)]

\* valid_data[i:i + batch_size] for i in range(0, len(valid_data), batch_size)
Partition(valid_data, batch_size) ==
    [b \in 1..((Len(valid_data) + batch_size - 1) \div batch_size) |->
        SubSeq(valid_data, (b - 1) * batch_size + 1,
               Min(b * batch_size, Len(valid_data)))]

\* A zip that pairs the items from the last one back.
ZipFromTheEnd(a, b) ==
    [k \in 1..Min(Len(a), Len(b)) |-> <<a[Min(Len(a), Len(b)) - k + 1], b[k]>>]

\* zip(a, b): pairs by position, as many as the shorter of the two holds.
Zip(a, b) == [k \in 1..Min(Len(a), Len(b)) |-> <<a[k], b[k]>>]

ProcessedWord(word, selected_definitions, audio_path) ==
    [word |-> word, selected_definitions |-> selected_definitions,
     audio_path |-> audio_path]

\* The ProcessedWords one batch result gives: none for an exception, else one
\* per (item, record) pair of the zip.
BatchWords(batch, batch_result) ==
    IF batch_result.kind = "exc" THEN <<>>
    ELSE LET z == Zip(batch_result.words, batch)
         IN [k \in 1..Len(z) |->
                ProcessedWord(z[k][2].word, z[k][1].definitions, z[k][2].audio_path)]

\* The loop over enumerate(results): batch outputs appended in batch order.
RECURSIVE Flatten(_, _, _)
Flatten(bs, results, upto) ==
    IF upto = 0 THEN <<>>
    ELSE Flatten(bs, results, upto - 1) \o BatchWords(bs[upto], results[upto])

\* One SelectedDefinitions entry, as the service writes it for a record.
EntryFor(word) ==
    [kind |-> "SelectedDefinitions",
     definitions |-> <<[word_type |-> "noun", english_meaning |-> "meaning of " \o word]>>]

ExactEntries(batch) == [k \in 1..Len(batch) |-> EntryFor(batch[k].word)]

BatchProcessWords(entries) == [kind |-> "BatchProcessWords", words |-> entries]

Reverse(s) == [k \in 1..Len(s) |-> s[Len(s) - k + 1]]

\* What chain.ainvoke can come back with for a batch: one entry per record in
\* the order submitted, the same entries in another order (nothing in the
\* code checks the order), one entry too few, one too many, or an exception
\* (timeout, service error, a response the schema rejects).
ServiceResponses(batch) ==
    {BatchProcessWords(ExactEntries(batch)),
     BatchProcessWords(Reverse(ExactEntries(batch))),
     BatchProcessWords(SubSeq(ExactEntries(batch), 1, Len(batch) - 1)),
     BatchProcessWords(Append(ExactEntries(batch), EntryFor("?"))),
     Raised("Exception")}

Batches == 1..Len(batches)

OutputPath == "data/output/words_flashcards.csv"

\* process_from_csv_async that exports whatever enrich returned.
ProcessFromCsvExportsAlways(enriched) ==
    [pc |-> "returned", ret |-> IF enriched = <<>> THEN "" ELSE OutputPath,
     written |-> TRUE]

\* The end of process_from_csv_async after enrich: "" and no CSV when nothing
\* was returned, else generate_and_export and the output path.
ProcessFromCsvReturn(enriched) ==
    IF enriched = <<>>
    THEN [pc |-> "returned", ret |-> "", written |-> FALSE]
    ELSE [pc |-> "returned", ret |-> OutputPath, written |-> TRUE]

\* LLMProcessor.process_words_batch up to its gather: filter, early return on
\* nothing valid, partition, one process_words coroutine per batch.
EnrichEntry(word_data_list) ==
    LET valid_data == Successful(word_data_list)
        bs == Partition(valid_data, llm_batch_size)
    IN IF valid_data = <<>>
       THEN [llm_call |-> "returned", batches |-> <<>>, llm_pc |-> <<>>,
             llm_res |-> <<>>, llm_calls |-> <<>>]
       ELSE [llm_call |-> "running", batches |-> bs,
             llm_pc |-> [b \in 1..Len(bs) |-> "start"],
             llm_res |-> [b \in 1..Len(bs) |-> Pending],
             llm_calls |-> [b \in 1..Len(bs) |-> 0]]

EnrichStart(word_data_list) ==
    LET e == EnrichEntry(word_data_list)
    IN /\ llm_call' = e.llm_call
       /\ batches' = e.batches
       /\ llm_pc' = e.llm_pc
       /\ llm_res' = e.llm_res
       /\ llm_calls' = e.llm_calls
       /\ processed_words' = <<>>

\* The scraper's gather is left by an exception (show_progress only), which
\* leaves process_words_batch and process_from_csv_async as well.
ScrapeGatherRaise ==
    /\ scrape_call = "running"
    /\ show_progress
    /\ TqdmRaises(completed, task_res)
    /\ scrape_call' = "raised"
    /\ pipeline' = [pc |-> "raised", ret |-> "", written |-> FALSE]
    /\ UNCHANGED <<call, ret, words, show_progress, pc, sem, holders, scraped, task_res,
                   fetch_log, completed, scrape_results>>
    /\ UNCHANGED llm_vars

\* Every task is done: the gather returns, process_words_batch builds its
\* outcomes, and process_from_csv_async runs on to its next await (the gather
\* of the batch tasks) or to its early return.
ScrapeGatherReturn ==
    /\ scrape_call = "running"
    /\ \A i \in Tasks : pc[i] = "done"
    /\ ~(show_progress /\ TqdmRaises(completed, task_res))
    /\ LET results == IF show_progress THEN TqdmGather(completed, task_res)
                      ELSE AsyncioGather(task_res)
           processed_results == ProcessResults(words, results)
           successful_scrapes == Successful(processed_results)
       IN /\ scrape_results' = processed_results
          /\ scrape_call' = "returned"
          /\ UNCHANGED completed
          /\ IF successful_scrapes = <<>>
             THEN /\ pipeline' = [pc |-> "returned", ret |-> "", written |-> FALSE]
                  /\ UNCHANGED llm_vars
             ELSE /\ EnrichStart(successful_scrapes)
                  /\ UNCHANGED <<llm_sem, llm_holders, llm_completed, pipeline>>
    /\ UNCHANGED <<call, ret, words, show_progress, pc, sem, holders, scraped, task_res, fetch_log>>

\* process_words up to chain.ainvoke: the permit is taken, the prompt is
\* built and the service call is issued.
LLMAcquire(b) ==
    /\ llm_pc[b] = "start"
    /\ CanAcquire(llm_sem)
    /\ llm_sem' = SemAcquire(llm_sem)
    /\ llm_holders' = llm_holders \cup {b}
    /\ llm_calls' = [llm_calls EXCEPT ![b] = @ + 1]
    /\ llm_pc' = [llm_pc EXCEPT ![b] = "call"]
    /\ UNCHANGED <<batches, llm_res, llm_completed, llm_call, processed_words>>
    /\ UNCHANGED <<call, ret, words, show_progress, pipeline>>
    /\ UNCHANGED scraper_vars

\* chain.ainvoke comes back: process_words returns the result or is left by
\* the exception, and the permit is released.
LLMResponse(b, resp) ==
    /\ llm_pc[b] = "call"
    /\ llm_res' = [llm_res EXCEPT ![b] = resp]
    /\ llm_sem' = SemRelease(llm_sem)
    /\ llm_holders' = llm_holders \ {b}
    /\ llm_pc' = [llm_pc EXCEPT ![b] = "done"]
    /\ llm_completed' = Append(llm_completed, b)
    /\ UNCHANGED <<batches, llm_calls, llm_call, processed_words>>
    /\ UNCHANGED <<call, ret, words, show_progress, pipeline>>
    /\ UNCHANGED scraper_vars

\* As ScrapeCancel, for the batch tasks.
LLMCancel(b) ==
    /\ llm_call = "raised"
    /\ llm_pc[b] \in {"start", "call"}
    /\ llm_pc' = [llm_pc EXCEPT ![b] = "cancelled"]
    /\ llm_res' = [llm_res EXCEPT ![b] = Cancelled]
    /\ IF b \in llm_holders
       THEN llm_sem' = SemRelease(llm_sem) /\ llm_holders' = llm_holders \ {b}
       ELSE UNCHANGED <<llm_sem, llm_holders>>
    /\ UNCHANGED <<batches, llm_calls, llm_completed, llm_call, processed_words>>
    /\ UNCHANGED <<call, ret, words, show_progress, pipeline>>
    /\ UNCHANGED scraper_vars

\* The gather of the batch tasks is left by an exception (show_progress only).
LLMGatherRaise ==
    /\ llm_call = "running"
    /\ show_progress
    /\ TqdmRaises(llm_completed, llm_res)
    /\ llm_call' = "raised"
    /\ pipeline' = [pc |-> "raised", ret |-> "", written |-> FALSE]
    /\ UNCHANGED <<batches, llm_pc, llm_sem, llm_holders, llm_res, llm_calls,
                   llm_completed, processed_words>>
    /\ UNCHANGED <<call, ret, words, show_progress>>
    /\ UNCHANGED scraper_vars

\* Every batch task is done: the gather returns, the results are flattened,
\* and process_from_csv_async writes the CSV or returns "".
LLMGatherReturn ==
    /\ llm_call = "running"
    /\ \A b \in Batches : llm_pc[b] = "done"
    /\ ~(show_progress /\ TqdmRaises(llm_completed, llm_res))
    /\ LET results == IF show_progress THEN TqdmGather(llm_completed, llm_res)
                      ELSE AsyncioGather(llm_res)
           out == Flatten(batches, results, Len(results))
       IN /\ processed_words' = out
          /\ llm_call' = "returned"
          /\ UNCHANGED llm_completed
          /\ pipeline' = ProcessFromCsvReturn(out)
    /\ UNCHANGED <<batches, llm_pc, llm_sem, llm_holders, llm_res, llm_calls>>
    /\ UNCHANGED <<call, ret, words, show_progress>>
    /\ UNCHANGED scraper_vars

Next ==
    \/ \E i \in Tasks : ScrapeAcquire(i)
    \/ \E i \in Tasks : ScrapeSleepDone(i)
    \/ \E i \in Tasks, resp \in PageResponses : PageResponse(i, resp)
    \/ \E i \in Tasks, resp \in AudioResponses : AudioResponse(i, resp)
    \/ \E i \in Tasks : ScrapeCancel(i)
    \/ ScrapeGatherRaise
    \/ ScrapeGatherReturn
    \/ \E b \in Batches : LLMAcquire(b)
    \/ \E b \in Batches : \E resp \in ServiceResponses(batches[b]) : LLMResponse(b, resp)
    \/ \E b \in Batches : LLMCancel(b)
    \/ LLMGatherRaise
    \/ LLMGatherReturn

Spec == Init /\ [][Next]_vars

\* The event loop runs every coroutine that can run, and every sleep, page
\* fetch, audio fetch and service call comes back.
Fairness ==
    /\ WF_vars(\E i \in Tasks : ScrapeAcquire(i))
    /\ WF_vars(\E i \in Tasks : ScrapeSleepDone(i))
    /\ WF_vars(\E i \in Tasks, resp \in PageResponses : PageResponse(i, resp))
    /\ WF_vars(\E i \in Tasks, resp \in AudioResponses : AudioResponse(i, resp))
    /\ WF_vars(\E i \in Tasks : ScrapeCancel(i))
    /\ WF_vars(ScrapeGatherRaise)
    /\ WF_vars(ScrapeGatherReturn)
    /\ WF_vars(\E b \in Batches : LLMAcquire(b))
    /\ WF_vars(\E b \in Batches : \E resp \in ServiceResponses(batches[b]) :
                  LLMResponse(b, resp))
    /\ WF_vars(\E b \in Batches : LLMCancel(b))
    /\ WF_vars(LLMGatherRaise)
    /\ WF_vars(LLMGatherReturn)

SpecFair == Init /\ [][Next]_vars /\ Fairness

(***************************************************************************)
(* LLMProcessor.process_words_batch called on its own, with any list of    *)
(* outcomes: failures and successes mixed, empty, or failures only.  The   *)
(* pipeline never passes a failure (it filters first); a direct caller may. *)
(***************************************************************************)
OutcomeKinds == {"failed", "no audio", "audio"}

\* The outcome of the given kind for the i-th word.
OutcomeOf(i, kind) ==
    CASE kind = "failed" -> Outcome(WordAt(i), None, "")
      [] kind = "no audio" ->
            Outcome(WordAt(i), CambridgeData(WordAt(i), <<"def">>, NoURL), "")
      [] OTHER ->
            Outcome(WordAt(i), CambridgeData(WordAt(i), <<"def">>, AudioURL),
                    DownloadAudio(WordAt(i), "ok").str)

InitEnrich ==
    \E n \in 0..MaxOutcomes : \E kinds \in [1..n -> OutcomeKinds] :
        LET word_data_list == [i \in 1..n |-> OutcomeOf(i, kinds[i])]
            e == EnrichEntry(word_data_list)
        IN /\ words = WordList(n)
           /\ show_progress \in BOOLEAN
           /\ pc = [i \in 1..n |-> "done"]
           /\ sem = ScraperSemaphore
           /\ holders = {}
           /\ scraped = [i \in 1..n |-> word_data_list[i].cd]
           /\ task_res = word_data_list
           /\ fetch_log = [i \in 1..n |->
                               [page |-> "none", parsed |-> FALSE, audio |-> "none"]]
           /\ completed = [i \in 1..n |-> i]
           /\ scrape_call = "returned"
           /\ scrape_results = word_data_list
           /\ batches = e.batches
           /\ llm_pc = e.llm_pc
           /\ llm_sem = LLMSemaphore
           /\ llm_holders = {}
           /\ llm_res = e.llm_res
           /\ llm_calls = e.llm_calls
           /\ llm_completed = <<>>
           /\ llm_call = e.llm_call
           /\ processed_words = <<>>
           /\ pipeline = [pc |-> IF e.llm_call = "returned" THEN "returned"
                                 ELSE "running",
                          ret |-> "", written |-> FALSE]
           /\ call = NoCall
           /\ ret = NotReturned

\* SelectedDefinitions.definitions: Field(min_length=1, max_length=3).
selected_min_length == 1

selected_max_length == 3

\* A response entry with n definitions.
EntryWith(word, n) ==
    [kind |-> "SelectedDefinitions",
     definitions |-> [i \in 1..n |-> EntryFor(word).definitions[1]]]

\* What the service itself can write for a batch, before the structured
\* output is validated: the responses above, and one entry per record with
\* any number of definitions in the first.
RawResponses(batch) ==
    ServiceResponses(batch)
    \cup {BatchProcessWords([k \in 1..Len(batch) |->
                                IF k = 1 THEN EntryWith(batch[k].word, n)
                                ELSE EntryFor(batch[k].word)]) :
            n \in 0..MaxServiceDefinitions}

\* A structured output that takes the response as it is written.
StructuredOutputUnvalidated(raw) == raw

\* llm.with_structured_output(BatchProcessWords): the response validated
\* against the model, an exception when an entry breaks its length limits.
StructuredOutput(raw) ==
    IF raw.kind = "exc" THEN raw
    ELSE IF \A k \in 1..Len(raw.words) :
                Len(raw.words[k].definitions) \in selected_min_length..selected_max_length
    THEN raw
    ELSE Raised("ValidationError")

NextEnrich ==
    \/ \E b \in Batches : LLMAcquire(b)
    \/ \E b \in Batches : \E raw \in RawResponses(batches[b]) :
          LLMResponse(b, StructuredOutput(raw))
    \/ \E b \in Batches : LLMCancel(b)
    \/ LLMGatherRaise
    \/ LLMGatherReturn

SpecEnrich == InitEnrich /\ [][NextEnrich]_vars

(***************************************************************************)
(* Text.  A Python str is a sequence of one-character strings, so that      *)
(* indexing, slicing, strip, startswith, join and split are computed on     *)
(* characters.  A fixed piece of markup the code writes (a tag of the       *)
(* example template, a URL prefix) is one element: nothing here looks       *)
(* inside it.                                                               *)
(***************************************************************************)
\* Characters for which str.isalpha() is true.
Letters ==
    {"a", "b", "c", "e", "i", "l", "m", "n", "o", "p", "r", "s", "t", "u", "E"}

IsAlpha(c) == c \in Letters

\* Characters str.strip() removes.
Whitespace == {" ", "\n", "\t"}

RECURSIVE LStrip(_)
LStrip(s) == IF s # <<>> /\ Head(s) \in Whitespace THEN LStrip(Tail(s)) ELSE s

RECURSIVE RStrip(_)
RStrip(s) ==
    IF s # <<>> /\ s[Len(s)] \in Whitespace
    THEN RStrip(SubSeq(s, 1, Len(s) - 1))
    ELSE s

\* s.strip()
Strip(s) == RStrip(LStrip(s))

\* sep.join(list)
RECURSIVE Join(_, _)
Join(list, sep) ==
    IF list = <<>> THEN <<>>
    ELSE IF Len(list) = 1 THEN list[1]
    ELSE list[1] \o sep \o Join(Tail(list), sep)

\* s.split(c) for a single character c.
RECURSIVE Split(_, _)
Split(s, c) ==
    IF \A k \in 1..Len(s) : s[k] # c THEN <<s>>
    ELSE LET k == CHOOSE i \in 1..Len(s) :
                     s[i] = c /\ \A j \in 1..(i - 1) : s[j] # c
         IN <<SubSeq(s, 1, k - 1)>> \o Split(SubSeq(s, k + 1, Len(s)), c)

\* The strings over alphabet of length 0..n.
Strings(alphabet, n) == UNION {[1..k -> alphabet] : k \in 0..n}

(***************************************************************************)
(* app.utils.create_cloze, called by CSVGenerator.generate_entries.        *)
(***************************************************************************)
\* A cloze that blanks digits along with the letters (isalnum for isalpha).
CreateClozeAlnum(word) ==
    [k \in 1..Len(word) |->
        IF IsAlpha(word[k]) \/ word[k] \in {"0", "3"} THEN "_" ELSE word[k]]

\* for char in word: cloze += "_" if char.isalpha() else char
CreateCloze(word) ==
    [k \in 1..Len(word) |-> IF IsAlpha(word[k]) THEN "_" ELSE word[k]]

IceCream == <<"i", "c", "e", "-", "c", "r", "e", "a", "m">>

\* Words handed to create_cloze: letters of both cases, hyphen, space,
\* apostrophe, digit and the underscore itself.
ClozeWords ==
    Strings({"a", "E", "-", " ", "'", "3", "_"}, MaxWordLen) \cup {IceCream}

(***************************************************************************)
(* CambridgeScraper._extract_audio_url_us.  Of the page it reads whether   *)
(* a span of class "us" exists and the audio/mpeg source tags in document  *)
(* order, each inside that span or not, each with its src ("" when the     *)
(* attribute is missing or empty).                                         *)
(***************************************************************************)
\* An Optional[str] that is a str.
Str(chars) == [kind |-> "str", chars |-> chars]

\* s.startswith(prefix)
StartsWith(s, prefix) ==
    Len(s) >= Len(prefix) /\ SubSeq(s, 1, Len(prefix)) = prefix

HttpsScheme == <<"https:">>

CambridgeHost == <<"https:", "/", "/", "dictionary.cambridge.org">>

\* The branch written with the two tests in the other order.
NormalizeUsAudioSlashFirst(url) ==
    IF StartsWith(url, <<"/">>) THEN CambridgeHost \o url
    ELSE IF StartsWith(url, <<"/", "/">>) THEN HttpsScheme \o url
    ELSE url

\* The if/elif/return of the branch under the "us" span.
NormalizeUsAudio(url) ==
    IF StartsWith(url, <<"/", "/">>) THEN HttpsScheme \o url
    ELSE IF StartsWith(url, <<"/">>) THEN CambridgeHost \o url
    ELSE url

\* The if/elif/return of the fallback branch.
NormalizeAnyAudio(url) ==
    IF StartsWith(url, <<"/", "/">>) THEN HttpsScheme \o url
    ELSE IF StartsWith(url, <<"/">>) THEN CambridgeHost \o url
    ELSE url

InUs(tag) == tag.in_us

ExtractAudioUrlUs(soup) ==
    LET us_sources == SelectSeq(soup.sources, InUs)
    IN IF soup.us_span /\ us_sources # <<>> /\ Head(us_sources).src # <<>>
       THEN Str(NormalizeUsAudio(Head(us_sources).src))
       ELSE IF soup.sources # <<>> /\ Head(soup.sources).src # <<>>
       THEN Str(NormalizeAnyAudio(Head(soup.sources).src))
       ELSE None

SourceTag(in_us, src) == [in_us |-> in_us, src |-> src]

\* src attributes: "" and the strings over "/", a host or path character and
\* an already written "https:".
Urls == Strings({"/", "x", "https:"}, MaxUrlLen)

\* Pages as _extract_audio_url_us sees them: no source, one source inside or
\* outside the "us" span, or one of each in either order.
AudioSoups ==
    {[us_span |-> u, sources |-> <<>>] : u \in BOOLEAN}
    \cup {[us_span |-> TRUE, sources |-> <<SourceTag(TRUE, src)>>] : src \in Urls}
    \cup {[us_span |-> u, sources |-> <<SourceTag(FALSE, src)>>] :
            u \in BOOLEAN, src \in Urls}
    \cup {[us_span |-> TRUE,
           sources |-> IF us_first
                       THEN <<SourceTag(TRUE, src), SourceTag(FALSE, other)>>
                       ELSE <<SourceTag(FALSE, other), SourceTag(TRUE, src)>>] :
            us_first \in BOOLEAN, src \in Urls,
            other \in {<<>>, <<"/", "x">>, <<"/", "/", "x">>}}

(***************************************************************************)
(* CambridgeScraper._extract_phonetic_us, _get_examples and                *)
(* _extract_definitions.  Of the page they read:                           *)
(*   ipas     the span.ipa tags in document order, inside the "us" span or *)
(*            not, with their text;                                        *)
(*   entries  the div.entry-body__el tags, each with its optional          *)
(*            div.pos-header (with its optional span.pos) and its          *)
(*            def-block senses; a sense has an optional div.def, an        *)
(*            optional div.def-body with its div.examp nodes and an        *)
(*            optional expanded section with its li nodes; an example node *)
(*            has an optional usage span, an optional span.eg with its     *)
(*            direct children, and text of its own.                        *)
(* An optional tag is NoTag or Tag(content).                               *)
(***************************************************************************)
NoTag == [tag |-> FALSE]

Tag(v) == [tag |-> TRUE, v |-> v]

ExtractPhoneticUs(soup) ==
    LET us_ipas == SelectSeq(soup.ipas, InUs)
    IN IF soup.us_span /\ us_ipas # <<>> THEN Str(Strip(Head(us_ipas).text))
       ELSE IF soup.ipas # <<>> THEN Str(Strip(Head(soup.ipas).text))
       ELSE None

\* The pieces of the example template.
ExampleOpen == "<div class=\"example\">"

UsecaseOpen == "<span class=\"example_usecase\">"

SentenceOpen == "<span class=\"example_sentence\">"

HighlightOpen == "<span class=\"example_highligh\">"

SpanClose == "</span>"

DivClose == "</div>"

\* A direct child of span.eg: a NavigableString, a span of class "b db", or
\* another element; text is its .text.
Child(kind, text) == [kind |-> kind, text |-> text]

\* The loop over exp_sentence_tag.children.
RECURSIVE SentenceOf(_)
SentenceOf(children) ==
    IF children = <<>> THEN <<>>
    ELSE (IF Head(children).kind = "b"
          THEN <<HighlightOpen>> \o Head(children).text \o <<SpanClose>>
          ELSE Head(children).text)
         \o SentenceOf(Tail(children))

RECURSIVE TextOf(_)
TextOf(children) ==
    IF children = <<>> THEN <<>> ELSE Head(children).text \o TextOf(Tail(children))

\* An element child of span.eg with children of its own; its .text is the
\* text of all its descendants.
Nested(kind, children) ==
    [kind |-> kind, text |-> TextOf(children), children |-> children]

\* exp.get_text(): the text of the usage span, of span.eg and of the node.
GetText(exp) ==
    (IF exp.use_case.tag THEN exp.use_case.v ELSE <<>>)
    \o (IF exp.eg.tag THEN TextOf(exp.eg.v) ELSE <<>>)
    \o exp.plain

\* One pass of the loop over example_tags: the marked-up example.
ExampleMarkup(exp, examples_box) ==
    LET exp_usecase == IF exp.use_case.tag
                       THEN <<UsecaseOpen>> \o exp.use_case.v \o <<SpanClose>>
                       ELSE <<>>
        sentence == IF examples_box.tag /\ exp.eg.tag
                    THEN SentenceOf(exp.eg.v)
                    ELSE GetText(exp)
        exp_sentence == <<SentenceOpen>> \o <<" ", " ">> \o sentence \o <<SpanClose>>
    IN <<ExampleOpen>> \o exp_usecase \o exp_sentence \o <<DivClose>>

\* _get_examples that looks into the expanded section whenever there is one.
GetExamplesExpandedFirst(sense, max_example) ==
    LET examples_box == sense.body
        box_tags == IF examples_box.tag THEN examples_box.v ELSE <<>>
        use_expanded == sense.expanded.tag \/ ~examples_box.tag \/ box_tags = <<>>
    IN IF use_expanded /\ ~sense.expanded.tag THEN None
       ELSE LET example_tags == IF use_expanded THEN sense.expanded.v ELSE box_tags
                taken == SubSeq(example_tags, 1, Min(max_example, Len(example_tags)))
                examples == [k \in 1..Len(taken) |->
                                ExampleMarkup(taken[k], examples_box)]
            IN IF examples = <<>> THEN None ELSE Str(Join(examples, <<"\n">>))

\* _get_examples: None, or the examples joined with "\n".
GetExamples(sense, max_example) ==
    LET examples_box == sense.body
        box_tags == IF examples_box.tag THEN examples_box.v ELSE <<>>
        use_expanded == ~examples_box.tag \/ box_tags = <<>>
    IN IF use_expanded /\ ~sense.expanded.tag THEN None
       ELSE LET example_tags == IF use_expanded THEN sense.expanded.v ELSE box_tags
                taken == SubSeq(example_tags, 1, Min(max_example, Len(example_tags)))
                examples == [k \in 1..Len(taken) |->
                                ExampleMarkup(taken[k], examples_box)]
            IN IF examples = <<>> THEN None ELSE Str(Join(examples, <<"\n">>))

\* The limit _extract_definitions passes to _get_examples.
max_example == 3

\* A trim that removes every trailing non-letter.
EnglishMeaningTrimsAll(text) ==
    LET english_meaning == Strip(text)
        letters == {k \in 1..Len(english_meaning) : IsAlpha(english_meaning[k])}
    IN SubSeq(english_meaning, 1,
              IF letters = {} THEN 0 ELSE CHOOSE k \in letters : \A j \in letters : j <= k)

\* def_tag.get_text().strip(), less its last character when that is no letter.
EnglishMeaning(text) ==
    LET english_meaning == Strip(text)
    IN IF english_meaning # <<>> /\ ~IsAlpha(english_meaning[Len(english_meaning)])
       THEN SubSeq(english_meaning, 1, Len(english_meaning) - 1)
       ELSE english_meaning

\* The dict appended for a sense that has a definition tag.
SenseDefinition(word_type, sense) ==
    LET examples_str == GetExamples(sense, max_example)
    IN [word_type |-> word_type,
        english_meaning |-> EnglishMeaning(sense.def.v),
        examples |-> IF examples_str = None THEN <<>>
                     ELSE Split(examples_str.chars, "\n")]

\* The loop over sense_blocks.
RECURSIVE SensesDefinitions(_, _)
SensesDefinitions(word_type, sense_blocks) ==
    IF sense_blocks = <<>> THEN <<>>
    ELSE (IF Head(sense_blocks).def.tag
          THEN <<SenseDefinition(word_type, Head(sense_blocks))>>
          ELSE <<>>)
         \o SensesDefinitions(word_type, Tail(sense_blocks))

Unknown == <<"unknown">>

\* pos.get_text(strip=True) if pos else "unknown"
WordType(pos_header) == IF pos_header.v.tag THEN Strip(pos_header.v.v) ELSE Unknown

\* The loop over entries.
RECURSIVE EntriesDefinitions(_)
EntriesDefinitions(entries) ==
    IF entries = <<>> THEN <<>>
    ELSE (IF Head(entries).pos_header.tag
          THEN SensesDefinitions(WordType(Head(entries).pos_header),
                                 Head(entries).senses)
          ELSE <<>>)
         \o EntriesDefinitions(Tail(entries))

ExtractDefinitions(soup) == EntriesDefinitions(soup.entries)

\* scrape_word that needs a phonetic to make a record.
ScrapePageNeedsPhonetic(word, soup) ==
    LET r == ScrapeWord(word, [status |-> "ok",
                               definitions |-> ExtractDefinitions(soup),
                               audio_url |-> ExtractAudioUrlUs(soup)]).ret
    IN IF r = None \/ ExtractPhoneticUs(soup) = None THEN None
       ELSE r @@ [phonetic_us |-> ExtractPhoneticUs(soup)]

\* scrape_word from BeautifulSoup(response.text) on: the three extractions,
\* None without definitions, else the CambridgeData with its phonetic.
ScrapePage(word, soup) ==
    LET r == ScrapeWord(word, [status |-> "ok",
                               definitions |-> ExtractDefinitions(soup),
                               audio_url |-> ExtractAudioUrlUs(soup)]).ret
    IN IF r = None THEN None
       ELSE r @@ [phonetic_us |-> ExtractPhoneticUs(soup)]

(***************************************************************************)
(* Pages.                                                                  *)
(***************************************************************************)
Entry(pos_header, senses) == [pos_header |-> pos_header, senses |-> senses]

Sense(def, body, expanded) == [def |-> def, body |-> body, expanded |-> expanded]

Example(use_case, eg, plain) == [use_case |-> use_case, eg |-> eg, plain |-> plain]

Noun == <<"n", "o", "u", "n">>

PosHeader == Tag(Tag(Noun))

\* A sense with a definition and nothing else.
BareSense(text) == Sense(Tag(text), NoTag, NoTag)

\* "a serious attempt." and "a tool"
ASeriousAttempt ==
    <<"a", " ", "s", "e", "r", "i", "o", "u", "s", " ",
      "a", "t", "t", "e", "m", "p", "t", ".">>

ATool == <<"a", " ", "t", "o", "o", "l">>

\* Texts of a definition tag: letters, a full stop, a closing bracket and
\* blanks in any arrangement, and the two texts above.
MeaningTexts ==
    Strings({"a", ".", ")", " "}, MaxMeaningLen) \cup {ASeriousAttempt, ATool}

\* Example nodes: a plain sentence; a sentence whose text holds a line break;
\* a usage span with a sentence of text, emphasis and another element; a node
\* without span.eg; a sentence with an emphasis inside another element.
ExampleNodes ==
    {Example(NoTag, Tag(<<Child("text", <<"a">>)>>), <<>>),
     Example(NoTag, Tag(<<Child("text", <<"a", "\n", "b">>)>>), <<>>),
     Example(Tag(<<"u">>),
             Tag(<<Child("text", <<"a">>), Child("b", <<"b">>),
                   Child("other", <<"c">>)>>),
             <<>>),
     Example(NoTag, NoTag, <<"a">>),
     Example(NoTag,
             Tag(<<Child("text", <<"a">>),
                   Nested("other", <<Child("b", <<"b">>)>>),
                   Child("text", <<"c">>)>>),
             <<>>)}

ExampleLists == UNION {[1..k -> ExampleNodes] : k \in 0..MaxExampleNodes}

\* An li of the expanded section.
ExpandedItem == Example(NoTag, NoTag, <<"z">>)

\* The ways a sense holds a list of example nodes: under its body, or in the
\* expanded section with no body or with a body that has no example, or under
\* its body with an expanded section beside it.
SensesWith(nodes) ==
    {Sense(Tag(<<"a">>), Tag(nodes), NoTag),
     Sense(Tag(<<"a">>), NoTag, Tag(nodes)),
     Sense(Tag(<<"a">>), Tag(<<>>), Tag(nodes)),
     Sense(Tag(<<"a">>), Tag(nodes), Tag(<<ExpandedItem>>)),
     Sense(Tag(<<"a">>), Tag(nodes), Tag(<<>>))}

\* Entries by what they lack: the word-type header, any sense, the definition
\* tag, the examples, the word type.
EntryVariants ==
    {Entry(NoTag, <<BareSense(<<"a">>)>>),
     Entry(PosHeader, <<>>),
     Entry(PosHeader, <<Sense(NoTag, NoTag, NoTag)>>),
     Entry(PosHeader, <<BareSense(<<"a">>)>>),
     Entry(Tag(NoTag),
           <<Sense(NoTag, NoTag, NoTag),
             Sense(Tag(<<"b", ".">>),
                   Tag(<<Example(NoTag, Tag(<<Child("text", <<"a">>)>>), <<>>)>>),
                   NoTag)>>)}

EntryLists == UNION {[1..k -> EntryVariants] : k \in 0..MaxEntries}

\* Word-type headers: none; a header without span.pos; a header whose
\* span.pos is empty or blank; a header with a word type, bare or padded.
HeaderVariants ==
    {NoTag, Tag(NoTag), Tag(Tag(<<>>)), Tag(Tag(<<" ">>)), PosHeader,
     Tag(Tag(<<" ", "v", "e", "r", "b">>))}

\* One or two entries, each with one of the headers above and three senses,
\* the middle one without definition tag.
HeaderEntryLists ==
    LET entry(h) == Entry(h, <<BareSense(<<"a">>), Sense(NoTag, NoTag, NoTag),
                              BareSense(<<"b">>)>>)
    IN {<<entry(h)>> : h \in HeaderVariants}
       \cup {<<entry(h1), entry(h2)>> : h1 \in HeaderVariants, h2 \in HeaderVariants}

\* The pages handed to _extract_definitions.
DefinitionSoups ==
    {[entries |-> es] : es \in EntryLists}
    \cup {[entries |-> es] : es \in HeaderEntryLists}
    \cup {[entries |-> <<Entry(PosHeader, <<BareSense(t)>>)>>] : t \in MeaningTexts}
    \cup {[entries |-> <<Entry(PosHeader, <<sense>>)>>] :
            sense \in UNION {SensesWith(nodes) : nodes \in ExampleLists}}

IpaTag(in_us, text) == [in_us |-> in_us, text |-> text]

\* The phonetic and audio tags of a page: none, under the "us" span, or
\* outside it.
PronunciationVariants ==
    {[us_span |-> TRUE, ipas |-> i, sources |-> a] :
        i \in {<<>>, <<IpaTag(TRUE, <<" ", "r", "n">>)>>, <<IpaTag(FALSE, <<"r", "n">>)>>},
        a \in {<<>>, <<SourceTag(TRUE, <<"/", "x">>)>>,
               <<SourceTag(FALSE, <<"/", "/", "x">>)>>}}

\* The pages handed to scrape_word.
PageSoups ==
    {[entries |-> es] @@ p : es \in EntryLists, p \in PronunciationVariants}

(***************************************************************************)
(* CSVGenerator.generate_entries.                                          *)
(***************************************************************************)
WordDefinition(word_type, english_meaning, vietnamese_meaning, phonetic, examples) ==
    [word_type |-> word_type, english_meaning |-> english_meaning,
     vietnamese_meaning |-> vietnamese_meaning, phonetic |-> phonetic,
     examples |-> examples]

VocabularyEntry(word, type, cloze, phonetic, audio, vietnamese_meaning, english_meaning, example) ==
    [word |-> word, type |-> type, cloze |-> cloze, phonetic |-> phonetic,
     audio |-> audio, vietnamese_meaning |-> vietnamese_meaning,
     english_meaning |-> english_meaning, example |-> example]

\* The truth value of an Optional[str].
Truthy(s) == s # None /\ s.chars # <<>>

\* all_examples after the loop: the examples of the definitions, extended in
\* definition order.
RECURSIVE AllExamples(_)
AllExamples(definitions) ==
    IF definitions = <<>> THEN <<>>
    ELSE Head(definitions).examples \o AllExamples(Tail(definitions))

\* A phonetic taken from the first definition only.
PhoneticOfFirstOnly(definitions) ==
    IF definitions # <<>> /\ Truthy(definitions[1].phonetic)
    THEN definitions[1].phonetic.chars
    ELSE <<>>

\* The first definition's phonetic, else the first one that is not empty,
\* and `phonetic or ""`.
PhoneticOf(definitions) ==
    LET first == IF definitions # <<>> THEN definitions[1].phonetic ELSE Str(<<>>)
        with == {k \in 1..Len(definitions) : Truthy(definitions[k].phonetic)}
        phonetic == IF Truthy(first) \/ with = {} THEN first
                    ELSE definitions[CHOOSE k \in with : \A j \in with : k <= j].phonetic
    IN IF Truthy(phonetic) THEN phonetic.chars ELSE <<>>

GenerateEntry(word_data) ==
    LET defs == word_data.selected_definitions
    IN VocabularyEntry(
           word_data.word,
           Join([k \in 1..Len(defs) |-> defs[k].word_type], <<",", " ">>),
           CreateCloze(word_data.word),
           PhoneticOf(defs),
           word_data.audio_path,
           Join([k \in 1..Len(defs) |-> defs[k].vietnamese_meaning], <<" ", "|", " ">>),
           Join([k \in 1..Len(defs) |-> defs[k].english_meaning], <<" ", "|", " ">>),
           Join(AllExamples(defs), <<"\n">>))

GenerateEntries(word_list) ==
    [k \in 1..Len(word_list) |-> GenerateEntry(word_list[k])]

\* Definitions as the service writes them: with no phonetic, an empty one or
\* one of two, with no, one or two examples.
DefinitionVariants ==
    {WordDefinition(Noun, <<"a">>, <<"m">>, None, <<>>),
     WordDefinition(<<"v", "e", "r", "b">>, <<"b">>, <<"n">>, Str(<<>>), <<<<"x">>>>),
     WordDefinition(Noun, <<"c">>, <<"o">>, Str(<<"r">>), <<<<"y">>, <<"z">>>>),
     WordDefinition(<<"v", "e", "r", "b">>, <<"e">>, <<"p">>, Str(<<"n">>), <<<<"t">>>>)}

DefinitionLists == UNION {[1..k -> DefinitionVariants] : k \in 1..MaxDefinitions}

\* The lists handed to generate_entries: none, one or two ProcessedWords.
ProcessedWordLists ==
    {<<>>}
    \cup {<<ProcessedWord(<<"r", "u", "n">>, d, "")>> : d \in DefinitionLists}
    \cup {<<ProcessedWord(IceCream, d1, "data/audio/ice-cream.mp3"),
            ProcessedWord(<<"r", "u", "n">>, d2, "")>> :
            d1 \in DefinitionLists, d2 \in DefinitionLists}

(***************************************************************************)
(* The functions above called on their own, one call per behaviour.        *)
(***************************************************************************)
Call(fn, arg) == [fn |-> fn, arg |-> arg]

ClozeCalls == {Call("create_cloze", w) : w \in ClozeWords}

AudioCalls == {Call("_extract_audio_url_us", soup) : soup \in AudioSoups}

DefinitionCalls == {Call("_extract_definitions", soup) : soup \in DefinitionSoups}

ScrapeCalls ==
    {Call("scrape_word", [word |-> WordAt(1), soup |-> soup]) : soup \in PageSoups}

CsvCalls == {Call("generate_entries", pws) : pws \in ProcessedWordLists}

InitPure ==
    /\ \/ call \in ClozeCalls
       \/ call \in CsvCalls
       \/ call \in AudioCalls
       \/ call \in DefinitionCalls
       \/ call \in ScrapeCalls
    /\ ret = NotReturned
    /\ words = <<>>
    /\ show_progress = FALSE
    /\ pc = <<>>
    /\ sem = ScraperSemaphore
    /\ holders = {}
    /\ scraped = <<>>
    /\ task_res = <<>>
    /\ fetch_log = <<>>
    /\ completed = <<>>
    /\ scrape_call = "idle"
    /\ scrape_results = <<>>
    /\ batches = <<>>
    /\ llm_pc = <<>>
    /\ llm_sem = LLMSemaphore
    /\ llm_holders = {}
    /\ llm_res = <<>>
    /\ llm_calls = <<>>
    /\ llm_completed = <<>>
    /\ llm_call = "idle"
    /\ processed_words = <<>>
    /\ pipeline = [pc |-> "idle", ret |-> "", written |-> FALSE]

pipeline_vars == <<words, show_progress, pipeline>>

CreateClozeCall ==
    /\ call.fn = "create_cloze"
    /\ ~ret.done
    /\ ret' = Returned(CreateCloze(call.arg))
    /\ UNCHANGED <<call, pipeline_vars, scraper_vars, llm_vars>>

ExtractAudioUrlUsCall ==
    /\ call.fn = "_extract_audio_url_us"
    /\ ~ret.done
    /\ ret' = Returned(ExtractAudioUrlUs(call.arg))
    /\ UNCHANGED <<call, pipeline_vars, scraper_vars, llm_vars>>

ExtractDefinitionsCall ==
    /\ call.fn = "_extract_definitions"
    /\ ~ret.done
    /\ ret' = Returned(ExtractDefinitions(call.arg))
    /\ UNCHANGED <<call, pipeline_vars, scraper_vars, llm_vars>>

ScrapeWordCall ==
    /\ call.fn = "scrape_word"
    /\ ~ret.done
    /\ ret' = Returned(ScrapePage(call.arg.word, call.arg.soup))
    /\ UNCHANGED <<call, pipeline_vars, scraper_vars, llm_vars>>

GenerateEntriesCall ==
    /\ call.fn = "generate_entries"
    /\ ~ret.done
    /\ ret' = Returned(GenerateEntries(call.arg))
    /\ UNCHANGED <<call, pipeline_vars, scraper_vars, llm_vars>>

NextPure ==
    \/ CreateClozeCall
    \/ GenerateEntriesCall
    \/ ExtractAudioUrlUsCall
    \/ ExtractDefinitionsCall
    \/ ScrapeWordCall

SpecPure == InitPure /\ [][NextPure]_vars

(***************************************************************************)
(* Properties.                                                             *)
(***************************************************************************)
\* The outcome process_words_batch owes word i, from what its task returned.
ExpectedOutcome(i) ==
    IF task_res[i].kind = "tuple" THEN task_res[i] ELSE Outcome(words[i], None, "")

PageInFlight == {i \in Tasks : pc[i] = "get"}

AudioInFlight == {i \in Tasks : pc[i] = "audio"}

OutputWords == [k \in 1..Len(processed_words) |-> processed_words[k].word]

\* The words of the batches of S, in batch order.
RECURSIVE WordsOfBatches(_, _)
WordsOfBatches(S, upto) ==
    IF upto = 0 THEN <<>>
    ELSE WordsOfBatches(S, upto - 1)
         \o (IF upto \in S
             THEN [k \in 1..Len(batches[upto]) |-> batches[upto][k].word]
             ELSE <<>>)

\* C1: when the scraper's process_words_batch returns, it returns exactly
\* len(words) outcomes and the i-th is the outcome of the i-th word (the tuple
\* its task returned, or (words[i], None, "")), whatever order the tasks
\* completed in.
C1_OutcomePerWordInOrder ==
    scrape_call = "returned" =>
        /\ Len(scrape_results) = Len(words)
        /\ \A i \in Tasks :
              /\ scrape_results[i] = ExpectedOutcome(i)
              /\ scrape_results[i].word = words[i]

\* C1 witness: a call under show_progress has returned after its tasks
\* completed out of input order, with a success and a failure among them.
C1_Witness ==
    /\ scrape_call = "returned"
    /\ show_progress
    /\ Len(words) >= 2
    /\ completed[1] # 1
    /\ \E i, j \in Tasks : scrape_results[i].cd # None /\ scrape_results[j].cd = None

\* C2: an exception raised inside one word's process_word task never leaves
\* process_words_batch; the call returns with (word, None, "") for that word
\* and the other words' outcomes untouched, for either value of show_progress.
C2_TaskFaultIsolated ==
    (\E i \in Tasks : task_res[i].kind = "exc") =>
        /\ scrape_call # "raised"
        /\ scrape_call = "returned" =>
              \A i \in Tasks : scrape_results[i] = ExpectedOutcome(i)

\* C3: when the service call of one batch raises and the others come back
\* with one entry per record, enrich returns normally and its output holds
\* exactly the words of the other batches, in order, for either value of
\* show_progress.
C3_BatchFaultIsolated ==
    LET failing == {b \in Batches : llm_res[b].kind = "exc"}
        fine == {b \in Batches :
                    llm_res[b] = BatchProcessWords(ExactEntries(batches[b]))}
    IN (failing # {} /\ fine # {} /\ failing \cup fine = Batches) =>
          /\ llm_call # "raised"
          /\ llm_call = "returned" => OutputWords = WordsOfBatches(fine, Len(batches))

\* C4: at most max_concurrent_scrapes scrape_word tasks are between acquiring
\* and releasing the scraper semaphore, so at most that many page GETs are in
\* flight.
C4_ScrapeCap ==
    /\ Cardinality(holders) <= max_concurrent_scrapes
    /\ PageInFlight \subseteq holders
    /\ Cardinality(PageInFlight) <= max_concurrent_scrapes

\* C4 witness: the cap binds: max_concurrent_scrapes page GETs are in flight
\* and another task is waiting for a permit.
C4_Witness ==
    /\ Cardinality(PageInFlight) = max_concurrent_scrapes
    /\ \E i \in Tasks : pc[i] = "start"
    /\ sem = 0

\* C5 as stated: page GETs and audio GETs together never exceed the cap.
C5_AllFetchesCapped ==
    Cardinality(PageInFlight \cup AudioInFlight) <= max_concurrent_scrapes

\* C5 amended: at most max_concurrent_scrapes page GETs are in flight; an
\* audio GET is issued only after its task gave the permit back and is not
\* counted against the cap, so the GETs in flight are bounded only by one per
\* word.
C5_PageFetchesCapped ==
    /\ Cardinality(PageInFlight) <= max_concurrent_scrapes
    /\ AudioInFlight \cap holders = {}
    /\ Cardinality(PageInFlight \cup AudioInFlight) <= Len(words)

\* C5 witness: more GETs in flight than the cap, the page GETs at the cap.
C5_Witness ==
    /\ Cardinality(PageInFlight) = max_concurrent_scrapes
    /\ AudioInFlight # {}

\* C6: a failed audio fetch (transport error or non-2xx status) leaves the
\* word a success with its record and audio path "".
C6_AudioFailureDegrades ==
    \A i \in Tasks :
        fetch_log[i].audio \in {"RequestError", "HTTPStatusError"} =>
            /\ task_res[i] = Outcome(words[i], scraped[i], "")
            /\ scrape_call # "raised"

\* C7: for every batch the output holds an EnrichedWord for each of its words
\* or for none: the output words are the words of a set of whole batches.
C7_BatchAllOrNothing ==
    llm_call = "returned" =>
        \E S \in SUBSET Batches : OutputWords = WordsOfBatches(S, Len(batches))

\* C8: a transport failure or non-2xx status of the page fetch makes
\* scrape_word return None without raising and without extraction, and
\* process_word return None without an audio fetch.
C8_FetchFailureIsNone ==
    \A i \in Tasks :
        fetch_log[i].page \in {"RequestError", "HTTPStatusError"} =>
            /\ scraped[i] = None
            /\ ~fetch_log[i].parsed
            /\ task_res[i] = None
            /\ fetch_log[i].audio = "none"
            /\ pc[i] = "done"

\* C8 witness: a task met a non-2xx status and returned None.
C8_Witness ==
    \E i \in Tasks : fetch_log[i].page = "HTTPStatusError" /\ task_res[i] = None

\* The permit bookkeeping of C9 in one state.
PermitsConserved ==
    /\ sem + Cardinality(holders) = max_concurrent_scrapes
    /\ holders = {i \in Tasks : pc[i] \in {"sleep", "get"}}
    /\ (\A i \in Tasks : pc[i] \in {"done", "cancelled"}) => sem = max_concurrent_scrapes

\* The steps of one scrape_word call, in the order C9 gives them.
PermitOrder ==
    \A i \in Tasks :
        pc'[i] # pc[i] =>
            \/ pc[i] = "start" /\ pc'[i] = "sleep" /\ i \notin holders /\ i \in holders'
            \/ pc[i] = "sleep" /\ pc'[i] = "get" /\ i \in holders /\ i \in holders'
            \/ pc[i] = "get" /\ pc'[i] \in {"audio", "done"}
                  /\ i \in holders /\ i \notin holders'
            \/ pc[i] = "audio" /\ pc'[i] = "done" /\ i \notin holders'
            \/ pc'[i] = "cancelled" /\ i \notin holders'

\* C9: every scrape_word call acquires, sleeps, issues the GET and releases
\* in that order, sleep and GET under the permit; the permit is released on
\* every exit path, so held + free = max_concurrent_scrapes in every state
\* and all permits are free once every task has finished.
C9_PermitDiscipline == [](PermitsConserved) /\ [][PermitOrder]_vars

\* C9 witness: every task has finished, by a page, a fetch error and an
\* unexpected exception among them, and all permits are free.
C9_Witness ==
    /\ Len(words) >= 3
    /\ \A i \in Tasks : pc[i] \in {"done", "cancelled"}
    /\ \E i, j, k \in Tasks :
          /\ fetch_log[i].page = "ok"
          /\ fetch_log[j].page = "RequestError"
          /\ fetch_log[k].page = "Exception"
    /\ sem = max_concurrent_scrapes

LLMInFlight == {b \in Batches : llm_pc[b] = "call"}

\* C10: at most max_concurrent_llm chain.ainvoke calls are in flight, and
\* each batch causes exactly one: never a second, one for every batch task
\* that reached its call, one per batch when enrich returns.
C10_LLMCap ==
    /\ Cardinality(LLMInFlight) <= max_concurrent_llm
    /\ LLMInFlight \subseteq llm_holders
    /\ \A b \in Batches :
          /\ llm_calls[b] <= 1
          /\ llm_pc[b] \in {"call", "done"} => llm_calls[b] = 1
    /\ llm_call = "returned" => \A b \in Batches : llm_calls[b] = 1

\* C10 witness: the cap binds: max_concurrent_llm calls are in flight and
\* another batch is waiting for a permit.
C10_Witness ==
    /\ Cardinality(LLMInFlight) = max_concurrent_llm
    /\ \E b \in Batches : llm_pc[b] = "start"
    /\ llm_sem = 0

\* The positions of scrape_results whose acquisition succeeded.
Acquired == {i \in 1..Len(scrape_results) : scrape_results[i].cd # None}

\* The service answered batch b with an entry at position j.
Answered(b, j) ==
    /\ llm_res[b].kind = "BatchProcessWords"
    /\ j \in 1..Len(llm_res[b].words)

\* How many records of batch b have an entry in its response.
Taken(b) == Cardinality({j \in 1..Len(batches[b]) : Answered(b, j)})

RECURSIVE TakenUpTo(_)
TakenUpTo(b) == IF b = 0 THEN 0 ELSE TakenUpTo(b - 1) + Taken(b)

\* C11: an enriched word exists only for a word whose acquisition succeeded
\* and whose batch came back with a response entry for it: every output record
\* carries the word and audio path of a successfully acquired outcome that
\* sits in a batch at a position the response has an entry for; failed
\* batches and unanswered positions add nothing to the count; the output is
\* never longer than the successful outcomes; and a CSV is written only from
\* a non-empty output.
C11_OnlyAcquiredAndAnswered ==
    /\ Len(processed_words) <= Cardinality(Acquired)
    /\ \A k \in 1..Len(processed_words) :
          \E b \in Batches : \E j \in 1..Len(batches[b]) :
             /\ Answered(b, j)
             /\ \E i \in Acquired : scrape_results[i] = batches[b][j]
             /\ processed_words[k].word = batches[b][j].word
             /\ processed_words[k].audio_path = batches[b][j].audio_path
    /\ llm_call = "returned" => Len(processed_words) = TakenUpTo(Len(batches))
    /\ pipeline.ret = OutputPath => processed_words # <<>>

\* C11 witness: the pipeline returned a non-empty output although one word's
\* acquisition failed and one acquired word got no response entry.
C11_Witness ==
    /\ pipeline.pc = "returned"
    /\ processed_words # <<>>
    /\ Acquired # 1..Len(scrape_results)
    /\ \E b \in Batches : Taken(b) < Len(batches[b])

\* The successful outcomes of s, in order.
RECURSIVE AcquiredSeq(_)
AcquiredSeq(s) ==
    IF s = <<>> THEN <<>>
    ELSE (IF Head(s).cd # None THEN <<Head(s)>> ELSE <<>>) \o AcquiredSeq(Tail(s))

\* The records of the first upto batches, in batch order.
RECURSIVE ConcatBatches(_)
ConcatBatches(upto) ==
    IF upto = 0 THEN <<>> ELSE ConcatBatches(upto - 1) \o batches[upto]

\* C12: enrich keeps the successful outcomes in their order and splits them
\* into contiguous batches of llm_batch_size: the batches in order concatenate
\* to the filtered sequence (so each success is in exactly one batch), every
\* batch but the last holds exactly llm_batch_size records, the last holds
\* between 1 and llm_batch_size; with no successful outcome there is no
\* batch, no service call, and the result is empty.
C12_ContiguousBatches ==
    LET valid == AcquiredSeq(scrape_results)
    IN /\ ConcatBatches(Len(batches)) = valid
       /\ \A b \in Batches : b < Len(batches) => Len(batches[b]) = llm_batch_size
       /\ batches # <<>> => Len(batches[Len(batches)]) \in 1..llm_batch_size
       /\ valid = <<>> =>
             /\ batches = <<>>
             /\ llm_calls = <<>>
             /\ llm_call = "returned"
             /\ processed_words = <<>>

\* C12 witness: a list with a failure among the successes was split into
\* several batches, the last one shorter than llm_batch_size, and the call
\* has returned.
C12_Witness ==
    /\ llm_call = "returned"
    /\ Len(batches) >= 2
    /\ Len(batches[Len(batches)]) < llm_batch_size
    /\ \E i \in 1..Len(scrape_results) :
          /\ scrape_results[i].cd = None
          /\ \E j \in 1..(i - 1) : scrape_results[j].cd # None
          /\ \E j \in (i + 1)..Len(scrape_results) : scrape_results[j].cd # None

\* a is b with some elements left out.
RECURSIVE IsSubsequence(_, _)
IsSubsequence(a, b) ==
    IF a = <<>> THEN TRUE
    ELSE IF b = <<>> THEN FALSE
    ELSE IF Head(a) = Head(b) THEN IsSubsequence(Tail(a), Tail(b))
    ELSE IsSubsequence(a, Tail(b))

\* The outputs of the first upto batches, each from the response its own
\* service call got, in batch order.
RECURSIVE ConcatBatchOutputs(_)
ConcatBatchOutputs(upto) ==
    IF upto = 0 THEN <<>>
    ELSE ConcatBatchOutputs(upto - 1) \o BatchWords(batches[upto], llm_res[upto])

AcquiredWords ==
    LET valid == AcquiredSeq(scrape_results)
    IN [k \in 1..Len(valid) |-> valid[k].word]

\* C13: when enrich returns, its output is the concatenation, in batch order,
\* of what each batch's own response gives, whatever order the service calls
\* completed in; and at every moment the words of the output are a
\* subsequence of the successfully acquired words.
C13_BatchOrderKept ==
    /\ llm_call = "returned" => processed_words = ConcatBatchOutputs(Len(batches))
    /\ IsSubsequence(OutputWords, AcquiredWords)

\* C13 witness: enrich returned the words of several batches whose service
\* calls completed in another order than the batches were built in.
C13_Witness ==
    /\ llm_call = "returned"
    /\ Len(batches) >= 2
    /\ \E j, k \in 1..Len(llm_completed) : j < k /\ llm_completed[j] > llm_completed[k]
    /\ \A b \in Batches : Taken(b) = Len(batches[b])
    /\ Len(processed_words) = Len(AcquiredWords)

\* C14: within a batch that came back, the k-th output record of the batch is
\* built from position k alone: the word and audio path of the batch's k-th
\* record and the definitions of the response's k-th entry, for every k both
\* have, whatever the entry is about.
C14_PairedByPosition ==
    llm_call = "returned" =>
        \A b \in Batches : \A k \in 1..Len(batches[b]) :
            Answered(b, k) =>
                LET out == processed_words[TakenUpTo(b - 1) + k]
                IN /\ out.word = batches[b][k].word
                   /\ out.audio_path = batches[b][k].audio_path
                   /\ out.selected_definitions = llm_res[b].words[k].definitions

\* C14 witness: a batch was answered with its entries in another order than
\* its records, and the output gave the first record the definitions the
\* service wrote for the second.
C14_Witness ==
    /\ llm_call = "returned"
    /\ \E b \in Batches :
          /\ Len(batches[b]) >= 2
          /\ Answered(b, 2)
          /\ batches[b][1].word # batches[b][2].word
          /\ llm_res[b].words[1] = EntryFor(batches[b][2].word)
          /\ processed_words[TakenUpTo(b - 1) + 1] =
                ProcessedWord(batches[b][1].word,
                              EntryFor(batches[b][2].word).definitions,
                              batches[b][1].audio_path)

\* C20: create_cloze works character by character: a letter becomes "_",
\* any other character (hyphen, space, apostrophe, digit) stays what and
\* where it is, so the cloze is as long as the word; "ice-cream" gives
\* "___-_____"; and the cloze of a cloze is the cloze.
C20_ClozeByCharacterClass ==
    (call.fn = "create_cloze" /\ ret.done) =>
        LET word == call.arg
            cloze == ret.val
        IN /\ Len(cloze) = Len(word)
           /\ \A k \in 1..Len(word) :
                 /\ word[k] \in Letters => cloze[k] = "_"
                 /\ word[k] \notin Letters => cloze[k] = word[k]
           /\ word = IceCream =>
                 cloze = <<"_", "_", "_", "-", "_", "_", "_", "_", "_">>
           /\ CreateCloze(cloze) = cloze

\* C20 witness: create_cloze returned for a word that mixes a letter, a digit
\* and a hyphen.
C20_Witness ==
    /\ call.fn = "create_cloze"
    /\ ret.done
    /\ call.arg = <<"a", "3", "-">>
    /\ ret.val = <<"_", "3", "-">>

\* The locator the specification gives for a src attribute.
NormalizedLocator(src) ==
    IF Len(src) >= 2 /\ src[1] = "/" /\ src[2] = "/" THEN <<"https:">> \o src
    ELSE IF Len(src) >= 1 /\ src[1] = "/"
    THEN <<"https:", "/", "/", "dictionary.cambridge.org">> \o src
    ELSE src

\* The src attribute _extract_audio_url_us returns the locator of: that of
\* the first source under the "us" span if it has one, else that of the first
\* source of the page if it has one.
PickedSrc(soup) ==
    LET in_us == {k \in 1..Len(soup.sources) : soup.sources[k].in_us}
        first_us == CHOOSE k \in in_us : \A j \in in_us : k <= j
    IN IF soup.us_span /\ in_us # {} /\ soup.sources[first_us].src # <<>>
       THEN soup.sources[first_us].src
       ELSE IF soup.sources # <<>> THEN soup.sources[1].src
       ELSE <<>>

\* C19: in the branch under the "us" span and in the fallback branch alike,
\* _extract_audio_url_us returns a src starting with "//" with "https:" in
\* front of it, a src starting with a single "/" with
\* "https://dictionary.cambridge.org" in front of it, and any other src as it
\* is; and normalizing the returned locator again, when it starts with
\* "https:", changes nothing in either branch.
C19_AudioLocatorNormalized ==
    (call.fn = "_extract_audio_url_us" /\ ret.done) =>
        LET src == PickedSrc(call.arg)
        IN /\ src = <<>> <=> ret.val = None
           /\ src # <<>> =>
                 /\ ret.val = Str(NormalizedLocator(src))
                 /\ ret.val.chars[1] = "https:" =>
                       /\ NormalizeUsAudio(ret.val.chars) = ret.val.chars
                       /\ NormalizeAnyAudio(ret.val.chars) = ret.val.chars

\* C19 witness: the source under the "us" span has no src, and the fallback
\* branch returned the protocol-relative src of another source with "https:"
\* in front of it.
C19_Witness ==
    /\ call.fn = "_extract_audio_url_us"
    /\ ret.done
    /\ call.arg.sources = <<SourceTag(FALSE, <<"/", "/", "x">>), SourceTag(TRUE, <<>>)>>
    /\ ret.val = Str(<<"https:", "/", "/", "x">>)

\* The senses of the page that _extract_definitions records: those with a
\* definition tag, in entries with a word-type header, in document order.
RECURSIVE RecordedSenses(_)
RecordedSenses(entries) ==
    IF entries = <<>> THEN <<>>
    ELSE LET e == Head(entries)
             with_def == {k \in 1..Len(e.senses) : e.senses[k].def.tag}
             kept == [n \in 1..Cardinality(with_def) |->
                         e.senses[CHOOSE k \in with_def :
                                     Cardinality({j \in with_def : j < k}) = n - 1]]
         IN (IF e.pos_header.tag THEN kept ELSE <<>>) \o RecordedSenses(Tail(entries))

\* C18: for every recorded sense, with t its meaning text after the
\* surrounding whitespace is trimmed: if t ends in a character that is no
\* letter, the recorded meaning is t without its last character and nothing
\* more; if t ends in a letter or is empty, it is t ("a serious attempt."
\* gives "a serious attempt", "a tool" gives "a tool").
C18_OneTrailingCharacter ==
    (call.fn = "_extract_definitions" /\ ret.done) =>
        LET senses == RecordedSenses(call.arg.entries)
        IN /\ Len(ret.val) = Len(senses)
           /\ \A k \in 1..Len(senses) :
                 LET t == Strip(senses[k].def.v)
                     meaning == ret.val[k].english_meaning
                 IN /\ (t # <<>> /\ t[Len(t)] \notin Letters) =>
                          /\ Len(meaning) = Len(t) - 1
                          /\ meaning = SubSeq(t, 1, Len(t) - 1)
                    /\ (t = <<>> \/ t[Len(t)] \in Letters) => meaning = t
                    /\ senses[k].def.v = ASeriousAttempt =>
                          meaning = SubSeq(ASeriousAttempt, 1, Len(ASeriousAttempt) - 1)
                    /\ senses[k].def.v = ATool => meaning = ATool

\* C18 witness: a meaning text ending in two non-letters and a blank was
\* recorded with the blank trimmed and one of the two removed.
C18_Witness ==
    /\ call.fn = "_extract_definitions"
    /\ ret.done
    /\ call.arg.entries = <<Entry(PosHeader, <<BareSense(<<"a", ".", ")", " ">>)>>)>>
    /\ ret.val[1].english_meaning = <<"a", ".">>

\* C17: every definition _extract_definitions returns holds at most 3
\* examples, however many example nodes its sense has and whatever their
\* text, line breaks included.
C17_AtMostThreeExamples ==
    (call.fn = "_extract_definitions" /\ ret.done) =>
        \A k \in 1..Len(ret.val) : Len(ret.val[k].examples) <= 3

\* C15: a page from which no definition is extracted (no entry, only entries
\* without a word-type header, or only senses without a definition tag)
\* raises nothing: _extract_definitions returns the empty list, and
\* scrape_word returns None, which process_words_batch reports as the
\* failure outcome (word, None, "").
C15_ZeroDefinitionsIsFailure ==
    /\ (call.fn = "_extract_definitions" /\ ret.done
            /\ RecordedSenses(call.arg.entries) = <<>>) =>
          ret.val = <<>>
    /\ (call.fn = "scrape_word" /\ ret.done
            /\ RecordedSenses(call.arg.soup.entries) = <<>>) =>
          /\ ret.val.kind # "exc"
          /\ ret.val = None
          /\ ProcessResults(<<call.arg.word>>, <<ret.val>>)
                = <<Outcome(call.arg.word, None, "")>>

\* C15 witness: scrape_word returned None for a page that has a phonetic, an
\* audio source and two entries, one without word-type header and one whose
\* sense has no definition tag.
C15_Witness ==
    /\ call.fn = "scrape_word"
    /\ ret.done
    /\ call.arg.soup.entries =
          <<Entry(NoTag, <<BareSense(<<"a">>)>>),
            Entry(PosHeader, <<Sense(NoTag, NoTag, NoTag)>>)>>
    /\ call.arg.soup.ipas # <<>>
    /\ call.arg.soup.sources # <<>>
    /\ ret.val = None

\* The sense has no example node, under its body or in an expanded section.
NoExampleNode(sense) ==
    /\ sense.body.tag => sense.body.v = <<>>
    /\ sense.expanded.tag => sense.expanded.v = <<>>

\* C16: scrape_word yields a record exactly when at least one definition is
\* extracted; in a record, a page without phonetic gives phonetic_us = None,
\* a page without audio locator gives audio_url = None, and a sense without
\* example gives examples = [], alone or together.
C16_OptionalFieldsDegrade ==
    (call.fn = "scrape_word" /\ ret.done) =>
        LET soup == call.arg.soup
            senses == RecordedSenses(soup.entries)
            record == ret.val
        IN /\ record # None <=> senses # <<>>
           /\ record # None =>
                 /\ record.kind = "CambridgeData"
                 /\ record.word = call.arg.word
                 /\ soup.ipas = <<>> => record.phonetic_us = None
                 /\ (\A k \in 1..Len(soup.sources) : soup.sources[k].src = <<>>) =>
                       record.audio_url = None
                 /\ Len(record.definitions) = Len(senses)
                 /\ \A k \in 1..Len(senses) :
                       NoExampleNode(senses[k]) => record.definitions[k].examples = <<>>

\* C16 witness: scrape_word returned a record for a page without phonetic
\* and without audio source whose first sense has no example.
C16_Witness ==
    /\ call.fn = "scrape_word"
    /\ ret.done
    /\ call.arg.soup.ipas = <<>>
    /\ call.arg.soup.sources = <<>>
    /\ ret.val # None
    /\ ret.val.phonetic_us = None
    /\ ret.val.audio_url = None
    /\ Len(ret.val.definitions) = 2
    /\ ret.val.definitions[1].examples = <<>>
    /\ ret.val.definitions[2].examples # <<>>

\* The word type the specification gives an entry with a word-type header.
EntryWordType(entry) ==
    IF entry.pos_header.v.tag /\ Strip(entry.pos_header.v.v) # <<>>
    THEN Strip(entry.pos_header.v.v)
    ELSE <<"unknown">>

\* One word type per recorded sense of the page, in document order.
RECURSIVE RecordedWordTypes(_)
RecordedWordTypes(entries) ==
    IF entries = <<>> THEN <<>>
    ELSE LET e == Head(entries)
             n == Len(RecordedSenses(<<e>>))
         IN (IF e.pos_header.tag THEN [k \in 1..n |-> EntryWordType(e)] ELSE <<>>)
            \o RecordedWordTypes(Tail(entries))

\* C21: an entry without word-type header contributes no definition,
\* whatever its senses; an entry whose header has no word-type text, or an
\* empty one, contributes its definitions with word_type "unknown"; every
\* definition carries the word type of its own entry.
C21_WordTypePerEntry ==
    (call.fn = "_extract_definitions" /\ ret.done) =>
        LET types == RecordedWordTypes(call.arg.entries)
        IN /\ Len(ret.val) = Len(types)
           /\ \A k \in 1..Len(types) : ret.val[k].word_type = types[k]

\* The strings of list with sep between each two of them.
RECURSIVE Interleaved(_, _)
Interleaved(list, sep) ==
    IF list = <<>> THEN <<>>
    ELSE IF Len(list) = 1 THEN Head(list)
    ELSE Head(list) \o sep \o Interleaved(Tail(list), sep)

\* The examples of the first n definitions, in order.
RECURSIVE ExamplesUpTo(_, _)
ExamplesUpTo(defs, n) ==
    IF n = 0 THEN <<>> ELSE ExamplesUpTo(defs, n - 1) \o defs[n].examples

\* C22: generate_entries gives one entry per ProcessedWord in the same
\* order, with the word, its audio_path as audio, the word types joined by
\* ", ", the meanings joined by " | ", the examples of all definitions in
\* definition order joined by a newline, and as phonetic the first non-empty
\* phonetic among the definitions in order, "" when there is none.
C22_OneEntryPerWord ==
    (call.fn = "generate_entries" /\ ret.done) =>
        /\ Len(ret.val) = Len(call.arg)
        /\ \A k \in 1..Len(call.arg) :
              LET defs == call.arg[k].selected_definitions
                  entry == ret.val[k]
                  voiced == {n \in 1..Len(defs) :
                                /\ defs[n].phonetic # None
                                /\ defs[n].phonetic.chars # <<>>}
              IN /\ entry.word = call.arg[k].word
                 /\ entry.audio = call.arg[k].audio_path
                 /\ entry.type =
                       Interleaved([n \in 1..Len(defs) |-> defs[n].word_type], <<",", " ">>)
                 /\ entry.english_meaning =
                       Interleaved([n \in 1..Len(defs) |-> defs[n].english_meaning],
                                   <<" ", "|", " ">>)
                 /\ entry.vietnamese_meaning =
                       Interleaved([n \in 1..Len(defs) |-> defs[n].vietnamese_meaning],
                                   <<" ", "|", " ">>)
                 /\ entry.example = Interleaved(ExamplesUpTo(defs, Len(defs)), <<"\n">>)
                 /\ entry.phonetic =
                       IF voiced = {} THEN <<>>
                       ELSE defs[CHOOSE n \in voiced : \A j \in voiced : n <= j].phonetic.chars

\* C22 witness: two words gave two entries in order; the first word's first
\* definition has no phonetic and its entry took the second definition's.
C22_Witness ==
    /\ call.fn = "generate_entries"
    /\ ret.done
    /\ Len(call.arg) = 2
    /\ Len(ret.val) = 2
    /\ ret.val[1].word = IceCream
    /\ call.arg[1].selected_definitions[1].phonetic = None
    /\ Len(call.arg[1].selected_definitions) = 2
    /\ ret.val[1].phonetic = <<"r">>
    /\ ret.val[1].type = <<"n", "o", "u", "n", ",", " ", "n", "o", "u", "n">>
    /\ ret.val[1].example = <<"y", "\n", "z">>

\* C23: every ProcessedWord in the output of enrich carries between 1 and 5
\* definitions: a response entry with no definition or with more than 5
\* never becomes a ProcessedWord.
C23_DefinitionCountBounded ==
    \A k \in 1..Len(processed_words) :
        Len(processed_words[k].selected_definitions) \in 1..5

\* C23 witness: enrich returned words of one batch, one of them with three
\* definitions, while another batch's response was rejected for an entry's
\* number of definitions.
C23_Witness ==
    /\ llm_call = "returned"
    /\ \E b \in Batches : llm_res[b] = Raised("ValidationError")
    /\ \E k \in 1..Len(processed_words) :
          Len(processed_words[k].selected_definitions) = 3

\* C24: in a pipeline run the stages do not overlap: once enrich has been
\* entered, and so whenever a batch task holds a permit or a service call has
\* been issued, every per-word task has finished, no fetch permit is held and
\* the scraper's semaphore is back at its cap; never are a fetch permit and
\* an enrichment permit held together.
C24_StagesDoNotOverlap ==
    /\ (llm_call # "idle" \/ llm_holders # {} \/ \E b \in Batches : llm_calls[b] > 0) =>
          /\ scrape_call = "returned"
          /\ \A i \in Tasks : pc[i] = "done"
          /\ holders = {}
          /\ sem = max_concurrent_scrapes
          /\ PageInFlight = {} /\ AudioInFlight = {}
    /\ holders = {} \/ llm_holders = {}

\* C24 witness: a service call is in flight for the words of a run in which
\* as many tasks as the cap allows had held fetch permits and one word failed.
C24_Witness ==
    /\ LLMInFlight # {}
    /\ Len(words) > max_concurrent_scrapes
    /\ \E i \in Tasks : scrape_results[i].cd = None
    /\ holders = {}

\* C25: when every fetch, delay and service call comes back, every per-word
\* task obtains a fetch permit and finishes, every batch task obtains an
\* enrichment permit and finishes, and acquire and enrich terminate.
C25_EveryTaskGetsItsPermit ==
    /\ <>(\A i \in Tasks : pc[i] = "done")
    /\ <>(scrape_call # "running")
    /\ [](llm_call = "running" =>
             <>(llm_call # "running" /\ \A b \in Batches : llm_pc[b] = "done"))

\* The examples a tier yields: the mark-up of its first max_example nodes,
\* joined with line breaks.
TierExamples(nodes, examples_box) ==
    LET taken == SubSeq(nodes, 1, Min(max_example, Len(nodes)))
    IN Join([k \in 1..Len(taken) |-> ExampleMarkup(taken[k], examples_box)], <<"\n">>)

\* C26: for every recorded sense, when its def-body holds at least one example
\* node the returned examples are those of the def-body alone, the expanded
\* section being left aside; when the sense has no def-body or its def-body
\* holds no example node they are those of the li items of the expanded
\* section; when both hold nothing there is no example.
C26_SecondaryOnlyWhenPrimaryEmpty ==
    (call.fn = "_extract_definitions" /\ ret.done) =>
        LET senses == RecordedSenses(call.arg.entries)
        IN /\ Len(ret.val) = Len(senses)
           /\ \A k \in 1..Len(senses) :
                 LET primary == IF senses[k].body.tag THEN senses[k].body.v ELSE <<>>
                     secondary == IF senses[k].expanded.tag
                                  THEN senses[k].expanded.v ELSE <<>>
                     returned == Join(ret.val[k].examples, <<"\n">>)
                 IN /\ primary # <<>> =>
                          returned = TierExamples(primary, senses[k].body)
                    /\ primary = <<>> =>
                          returned = TierExamples(secondary, senses[k].body)
                    /\ (primary = <<>> /\ secondary = <<>>) =>
                          ret.val[k].examples = <<>>

\* C26 witness: a sense with one example under its def-body and an li in its
\* expanded section was recorded with the def-body's example only.
C26_Witness ==
    /\ call.fn = "_extract_definitions"
    /\ ret.done
    /\ call.arg.entries =
          <<Entry(PosHeader,
                  <<Sense(Tag(<<"a">>),
                          Tag(<<Example(NoTag, Tag(<<Child("text", <<"a">>)>>), <<>>)>>),
                          Tag(<<ExpandedItem>>))>>)>>
    /\ ret.val[1].examples =
          <<<<ExampleOpen, SentenceOpen, " ", " ", "a", SpanClose, DivClose>>>>

\* The sentence rebuilt by a walk of the text and element children at every
\* depth: every emphasis becomes a highlight span where it stands.
RECURSIVE Highlighted(_)
Highlighted(children) ==
    IF children = <<>> THEN <<>>
    ELSE LET child == Head(children)
         IN (IF child.kind = "b"
             THEN <<HighlightOpen>> \o child.text \o <<SpanClose>>
             ELSE IF "children" \in DOMAIN child THEN Highlighted(child.children)
             ELSE child.text)
            \o Highlighted(Tail(children))

\* The example of a node whose sentence is rebuilt that way.
RebuiltExample(exp) ==
    (<<ExampleOpen>>
     \o (IF exp.use_case.tag THEN <<UsecaseOpen>> \o exp.use_case.v \o <<SpanClose>>
         ELSE <<>>))
    \o <<SentenceOpen, " ", " ">> \o Highlighted(exp.eg.v) \o <<SpanClose, DivClose>>

\* C27: for every recorded sense with a def-body holding example nodes that
\* all have a sentence node, each returned example keeps the text of the
\* sentence in document order and shows every emphasis span, direct child or
\* nested in another element, as a highlight span at its place.
C27_EmphasisAtAnyDepth ==
    (call.fn = "_extract_definitions" /\ ret.done) =>
        LET senses == RecordedSenses(call.arg.entries)
        IN /\ Len(ret.val) = Len(senses)
           /\ \A k \in 1..Len(senses) :
                 LET nodes == IF senses[k].body.tag THEN senses[k].body.v ELSE <<>>
                     taken == SubSeq(nodes, 1, Min(max_example, Len(nodes)))
                 IN (nodes # <<>> /\ \A n \in 1..Len(nodes) : nodes[n].eg.tag) =>
                       Join(ret.val[k].examples, <<"\n">>)
                          = Join([n \in 1..Len(taken) |-> RebuiltExample(taken[n])],
                                 <<"\n">>)

\* C28: a run that returns with no word acquired returns "" and has neither
\* entered enrich nor called the service nor written a CSV; a run that
\* returns with a word acquired and nothing back from enrich returns "" and
\* has written no CSV; a CSV is written and its path returned only after
\* enrich returned at least one record, and then it is.
C28_ReturnValues ==
    /\ (pipeline.pc = "returned" /\ Acquired = {}) =>
          /\ pipeline.ret = ""
          /\ ~pipeline.written
          /\ llm_call = "idle"
          /\ batches = <<>> /\ llm_calls = <<>>
    /\ (pipeline.pc = "returned" /\ Acquired # {} /\ processed_words = <<>>) =>
          /\ pipeline.ret = ""
          /\ ~pipeline.written
    /\ (pipeline.written \/ pipeline.ret = OutputPath) =>
          /\ pipeline.pc = "returned"
          /\ llm_call = "returned"
          /\ processed_words # <<>>
          /\ pipeline.written
          /\ pipeline.ret = OutputPath
    /\ (pipeline.pc = "returned" /\ processed_words # <<>>) =>
          pipeline.written /\ pipeline.ret = OutputPath

\* C28 witness: a word was acquired, the service was called, enrich returned
\* nothing, and the run returned "".
C28_Witness ==
    /\ pipeline.pc = "returned"
    /\ Acquired # {}
    /\ \E b \in Batches : llm_calls[b] > 0
    /\ llm_call = "returned"
    /\ processed_words = <<>>
    /\ pipeline.ret = ""
====
